---- MODULE Spec2Model ----
(***************************************************************************)
(* Model of RAGService (backend/src/services/ragService.ts): the service   *)
(* that probes the Python environment at construction, dispatches every    *)
(* query to one `python -c <script>` child process, races the process's    *)
(* 'close' event against a 60 s timer, and parses the marker-delimited     *)
(* text the process printed on stdout.                                     *)
(*                                                                         *)
(* Captured output is modelled line by line: a line is a marker line, a    *)
(* line holding one JSON document, or a line of other text.                *)
(***************************************************************************)
EXTENDS Integers, Sequences, FiniteSets, TLC

\* ------------------------------------------------------------------ bounds
MaxQueries == 2      \* query() calls per behaviour of Spec
MaxTicks == 2        \* clock steps (of TimeoutMs \div 2) followed per query
MaxLiveQueries == 1  \* query() calls per behaviour of FairSpec
MaxLen == 6          \* lines of captured output in SpecParse
MaxQuestionLen == 2  \* characters of a question in SpecScript
MaxRequests == 2     \* POST /query requests in SpecHttp
MaxSubmits == 3      \* handleSubmit calls in SpecChat
MaxChunks == 6       \* chunks the engine returns (one more than the default cut)

\* ------------------------------------------------------- program constants
TimeoutMs == 60000           \* setTimeout(..., 60000)
DefaultMaxSources == 5       \* options.maxSources || 5
ExcerptLen == 500            \* chunk["content"][:500]
DefaultTemperature == 5      \* temperature default 0.05, in hundredths
MaxTemperature == 100        \* temperature max(1), in hundredths
MinTemperature == 0          \* temperature min(0)
MinQuestionChars == 1        \* question min(1)
MaxQuestionChars == 1000     \* question max(1000)
MinSources == 1              \* maxSources min(1)
MaxSources == 10             \* maxSources max(10)
SchemaMaxSources == 5        \* maxSources default(5)
TotalChunks == 397           \* totalChunks: 397

Q == 1..MaxQueries
TickMs == TimeoutMs \div 2
MaxElapsed == MaxTicks * TickMs

Min(S) == CHOOSE x \in S : \A y \in S : x <= y
Max(S) == CHOOSE x \in S : \A y \in S : x >= y

\* ------------------------------------------------------------ JSON values
\* What JSON.parse can give back for one line: an object with the fields the
\* handler reads (absent fields read as undefined: falsy / "undefined"), or null.
JsonObject(success, sources, error, type) ==
    [t |-> "object", success |-> success, sources |-> sources,
     error |-> error, type |-> type]
JsonNull == [t |-> "null", success |-> FALSE, sources |-> <<>>,
             error |-> "", type |-> ""]
NoJson == [t |-> "none", success |-> FALSE, sources |-> <<>>,
           error |-> "", type |-> ""]

\* ---------------------------------------------------------------- lines
Line(kind, json) == [kind |-> kind, json |-> json]
RS == Line("RESULT_START", NoJson)
RE == Line("RESULT_END", NoJson)
ES == Line("ERROR_START", NoJson)
EE == Line("ERROR_END", NoJson)
Noise == Line("text", NoJson)
JsonLine(j) == Line("json", j)

\* --------------------------------------------------------------- strings
\* A string is a sequence of characters; a run of n letters q (a letter with
\* no meaning to JavaScript or Python) is kept as one element.
Ch(c) == [ch |-> c, n |-> 1]
Run(n) == [ch |-> "q", n |-> n]
DQ == Ch("\"")
BS == Ch("\\")
LF == Ch("\n")
LetterN == Ch("n")

RECURSIVE StrLen(_)
StrLen(str) == IF str = <<>> THEN 0 ELSE Head(str).n + StrLen(Tail(str))

\* question.replace(/"/g, '\\"'): a backslash before every double quote.
RECURSIVE JsEscapeQuotes(_)
JsEscapeQuotes(str) ==
    IF str = <<>> THEN <<>>
    ELSE (IF Head(str) = DQ THEN <<BS, DQ>> ELSE <<Head(str)>>)
         \o JsEscapeQuotes(Tail(str))

\* The text of the script from after the opening """ of the question literal
\* to the end of that line.
QuestionLine(question) == JsEscapeQuotes(question) \o <<DQ, DQ, DQ>>

\* Python reading a """ literal from src[i] on: backslash escapes (\" \\ \n,
\* backslash-newline is dropped, an unknown escape stays as written) up to the
\* first """ that is not escaped; ok is FALSE when the text ends before it.
\* rest is the text that follows the literal on its line.
RECURSIVE PyStringLiteral(_, _, _)
PyStringLiteral(src, i, acc) ==
    IF i > Len(src) THEN [ok |-> FALSE, value |-> acc, rest |-> <<>>]
    ELSE IF src[i] = BS
    THEN IF i = Len(src) THEN [ok |-> FALSE, value |-> acc, rest |-> <<>>]
         ELSE PyStringLiteral(src, i + 2,
                  CASE src[i + 1] = DQ -> Append(acc, DQ)
                    [] src[i + 1] = BS -> Append(acc, BS)
                    [] src[i + 1] = LetterN -> Append(acc, LF)
                    [] src[i + 1] = LF -> acc
                    [] OTHER -> acc \o <<BS, src[i + 1]>>)
    ELSE IF i + 2 <= Len(src) /\ src[i] = DQ /\ src[i + 1] = DQ /\ src[i + 2] = DQ
    THEN [ok |-> TRUE, value |-> acc, rest |-> SubSeq(src, i + 3, Len(src))]
    ELSE PyStringLiteral(src, i + 1, Append(acc, src[i]))

\* The first k characters of a string (Python's str[:k]).
RECURSIVE StrPrefix(_, _)
StrPrefix(str, k) ==
    IF str = <<>> \/ k <= 0 THEN <<>>
    ELSE IF Head(str).n <= k
    THEN <<Head(str)>> \o StrPrefix(Tail(str), k - Head(str).n)
    ELSE <<[Head(str) EXCEPT !.n = k]>>

Ellipsis == <<Ch("."), Ch("."), Ch(".")>>

\* ------------------------------------------------ the generated script
\* options.maxSources || 5 : undefined (no such field) and 0 are falsy.
EffMaxSources(options) ==
    IF "maxSources" \in DOMAIN options /\ options.maxSources # 0
    THEN options.maxSources
    ELSE DefaultMaxSources

\* Python's result["relevant_chunks"][:n] for n >= 0.
PySlice(chunks, n) ==
    SubSeq(chunks, 1, IF n < Len(chunks) THEN n ELSE Len(chunks))

\* Mutant of PyExcerpt: the cut without the marker.
PyExcerptNoMarker(content) == StrPrefix(content, ExcerptLen)

\* chunk["content"][:500] + ("..." if len(chunk["content"]) > 500 else "")
PyExcerpt(content) ==
    StrPrefix(content, ExcerptLen)
    \o (IF StrLen(content) > ExcerptLen THEN Ellipsis ELSE <<>>)

\* One element of "sources": the chunk's page and the excerpt of its content.
FormatSource(chunk) == [page |-> chunk.page, content |-> PyExcerpt(chunk.content)]

\* The response object the script prints between the result markers.
ScriptResponse(chunks, options) ==
    LET cut == PySlice(chunks, EffMaxSources(options))
    IN  JsonObject(TRUE, [i \in 1..Len(cut) |-> FormatSource(cut[i])], "", "")

\* The error object the script prints between the error markers.
ScriptErrorResponse(message, type) == JsonObject(FALSE, <<>>, message, type)

\* ---------------------------------------------------- parsing the output
NoMatch == [found |-> FALSE, group |-> <<>>]

\* stdout.match(/<start>\n(.*)\n<end>/s): the leftmost start marker that has an
\* end marker at least two line breaks later; (.*) with the s flag is greedy,
\* so the group runs to the LAST such end marker.
GroupEnd(s, i, end) == Max({j \in (i + 2)..Len(s) : s[j].kind = end})

RegexMatch(s, start, end) ==
    LET starts == {i \in 1..Len(s) :
                     /\ s[i].kind = start
                     /\ \E j \in (i + 2)..Len(s) : s[j].kind = end}
    IN  IF starts = {} THEN NoMatch
        ELSE LET i == Min(starts)
             IN  [found |-> TRUE, group |-> SubSeq(s, i + 1, GroupEnd(s, i, end) - 1)]

\* Mutant of JSONparse: text around the first JSON document is skipped.
JSONparseFirstLine(group) ==
    LET docs == {i \in 1..Len(group) : group[i].kind = "json"}
    IN  IF docs # {}
        THEN [ok |-> TRUE, value |-> group[Min(docs)].json]
        ELSE [ok |-> FALSE, value |-> NoJson]

\* JSON.parse(group): the group is the text of its lines joined by line
\* breaks; it parses only when it is one line holding a JSON document.
JSONparse(group) ==
    IF Len(group) = 1 /\ group[1].kind = "json"
    THEN [ok |-> TRUE, value |-> group[1].json]
    ELSE [ok |-> FALSE, value |-> NoJson]

\* What the 'close' handler passes to resolve / reject.
Resolve(result) ==
    [settle |-> "resolve", error |-> "", detail |-> "", result |-> result]
Reject(error, detail) ==
    [settle |-> "reject", error |-> error, detail |-> detail, result |-> NoJson]

\* Mutant of ParseOutput: resultMatch[1] is read without the test for a
\* match, so that no match ends in the catch block.
ParseOutputUnguarded(stdout) ==
    LET resultMatch == RegexMatch(stdout, "RESULT_START", "RESULT_END")
        errorMatch == RegexMatch(stdout, "ERROR_START", "ERROR_END")
    IN  IF errorMatch.found
        THEN LET errorData == JSONparse(errorMatch.group)
             IN  IF errorData.ok /\ errorData.value.t = "object"
                 THEN Reject("RAG Error", errorData.value.error)
                 ELSE Reject("Failed to parse RAG response", "")
        ELSE LET result == JSONparse(resultMatch.group)
             IN  IF ~(result.ok /\ result.value.t = "object")
                 THEN Reject("Failed to parse RAG response", "")
                 ELSE IF result.value.success
                 THEN Resolve(result.value)
                 ELSE Reject("RAG query failed", "")

\* Mutant of ParseOutput: a result that parsed is resolved without the test
\* of its success flag.
ParseOutputFlagUnread(stdout) ==
    LET resultMatch == RegexMatch(stdout, "RESULT_START", "RESULT_END")
        errorMatch == RegexMatch(stdout, "ERROR_START", "ERROR_END")
    IN  IF errorMatch.found
        THEN LET errorData == JSONparse(errorMatch.group)
             IN  IF errorData.ok /\ errorData.value.t = "object"
                 THEN Reject("RAG Error", errorData.value.error)
                 ELSE Reject("Failed to parse RAG response", "")
        ELSE IF resultMatch.found
        THEN LET result == JSONparse(resultMatch.group)
             IN  IF ~(result.ok /\ result.value.t = "object")
                 THEN Reject("Failed to parse RAG response", "")
                 ELSE Resolve(result.value)
        ELSE Reject("No valid result found in Python output", "")

\* try { ... } catch (parseError) { ... } of the 'close' handler.
ParseOutput(stdout) ==
    LET resultMatch == RegexMatch(stdout, "RESULT_START", "RESULT_END")
        errorMatch == RegexMatch(stdout, "ERROR_START", "ERROR_END")
    IN  IF errorMatch.found
        THEN LET errorData == JSONparse(errorMatch.group)
             IN  IF errorData.ok /\ errorData.value.t = "object"
                 THEN Reject("RAG Error", errorData.value.error)
                 ELSE Reject("Failed to parse RAG response", "")
        ELSE IF resultMatch.found
        THEN LET result == JSONparse(resultMatch.group)
             IN  IF ~(result.ok /\ result.value.t = "object")
                 THEN Reject("Failed to parse RAG response", "")
                 ELSE IF result.value.success
                 THEN Resolve(result.value)
                 ELSE Reject("RAG query failed", "")
        ELSE Reject("No valid result found in Python output", "")

\* --------------------------------------------------- the external process
\* What is not in the repository: the Python runtime and rag_engine.  A
\* behaviour says whether the process can be started, what the engine does
\* inside the script, what it prints of its own before the script's region,
\* whether the process ends by itself and whether SIGTERM ends it.
Chunks(k) == [i \in 1..k |-> [page |-> i, content |-> <<Run(i)>>]]

Behaviour(starts, closeAfterError, noise, outcome, chunks, ends, ignoresTerm, code) ==
    [starts |-> starts, closeAfterError |-> closeAfterError, noise |-> noise,
     outcome |-> outcome, chunks |-> chunks, ends |-> ends,
     ignoresTerm |-> ignoresTerm, code |-> code]

\* pythonScript: the template with its two interpolations, the question line
\* and the slice bound.
PythonScript(question, options) ==
    [question |-> QuestionLine(question), maxSources |-> EffMaxSources(options)]

\* Python's reading of the question line of the script.
ScriptQuestion(script) == PyStringLiteral(script.question, 1, <<>>)

\* The question literal is closed and nothing follows it on its line.
ScriptIntact(script) ==
    ScriptQuestion(script).ok /\ ScriptQuestion(script).rest = <<>>

\* Everything the script run by `python -c` prints on stdout, noise first.
ScriptStdout(beh, options) ==
    beh.noise \o
    CASE beh.outcome = "result" ->
           <<RS, JsonLine(ScriptResponse(beh.chunks, options)), RE>>
      [] beh.outcome = "exception" ->
           <<ES, JsonLine(ScriptErrorResponse("boom", "ValueError")), EE>>
      [] OTHER -> <<>>

\* What the process prints on stdout: the script's output, or nothing when
\* Python stops at a syntax error before it runs a statement.
ProcessStdout(script, beh, options) ==
    IF ScriptIntact(script) THEN ScriptStdout(beh, options) ELSE <<>>

\* ------------------------------------------------------------------ state
VARIABLES
    isInitialized,   \* RAGService.isInitialized
    probe,           \* the startup probe process: "running", "ok", "failed"
    testProcess,     \* the probe's spawns, and its exit code and output at 'close'
    queryCount,      \* RAGService.queryCount
    totalQueryTime,  \* RAGService.totalQueryTime
    query,           \* per query() call: the closure of its Promise executor
    request,         \* per POST /query request: its body and the router's answer
    chat             \* the chat page: messages, input and its mutation

vars == <<isInitialized, probe, testProcess, queryCount, totalQueryTime, query,
          request, chat>>

NoOutcome == [settle |-> "none", error |-> "", detail |-> "", result |-> NoJson]
NoBehaviour == Behaviour(FALSE, FALSE, <<>>, "none", <<>>, FALSE, FALSE, 0)
NoOptions == [includeMetadata |-> TRUE]

IdleQuery ==
    [state |-> "idle",          \* "idle", "thrown" (not initialized), "dispatched"
     question |-> <<>>,         \* query(question, ...)
     options |-> NoOptions,
     script |-> PythonScript(<<>>, NoOptions),  \* const pythonScript
     initAtCall |-> FALSE,      \* isInitialized when query() was called
     probeAtCall |-> "none",    \* the probe's state when query() was called
     promise |-> "none",        \* "none", "pending", "fulfilled", "rejected"
     outcome |-> NoOutcome,     \* what the caller was resumed with
     resumes |-> 0,             \* times the caller was resumed
     settledBy |-> "none",      \* "throw", "close", "error", "timer"
     spawns |-> 0,              \* processes started for this call
     proc |-> "none",           \* "none", "running", "exited", "failed"
     beh |-> NoBehaviour,
     out |-> <<>>,              \* what the process prints if it gets to its end
     sigterm |-> FALSE,         \* kill() reached the running process
     pipe |-> <<>>,             \* printed by the process, not yet read
     stdout |-> <<>>,           \* let stdout
     closeEv |-> "no",          \* 'close': "no", "pending", "handled"
     errorEv |-> "no",          \* 'error': "no", "pending", "handled"
     timer |-> "none",          \* "none", "armed", "fired"
     elapsed |-> 0,             \* Date.now() - startTime
     counted |-> 0,             \* statistics updates made for this call
     duration |-> 0,            \* const duration = Date.now() - startTime
     saved |-> 0,               \* saveQuery calls made for this call
     save |-> "none",           \* db.query.create: "none", "pending", "ok", "failed"
     logged |-> 0,              \* persistence failures logged
     kills |-> 0,               \* pythonProcess.kill() calls
     lateSignals |-> 0,         \* signals sent after the promise was settled
     lateCounted |-> 0,         \* statistics updates after the promise was settled
     lateSaved |-> 0,           \* saveQuery calls after the promise was settled
     closeOutcome |-> NoOutcome,\* what the 'close' handler passed on
     resultMatch |-> NoMatch,   \* the 'close' handler's resultMatch
     errorMatch |-> NoMatch]    \* the 'close' handler's errorMatch

\* The probe process: spawned by the constructor, not yet closed.
ProbeSpawned == [spawns |-> 1, closed |-> FALSE, code |-> 0, printed |-> FALSE]

\* A field of a request body that may be absent: no value or one value.
ValueOr(field, default) == IF field = {} THEN default ELSE CHOOSE x \in field : TRUE

Requests == 1..MaxRequests

NoBody ==
    [question |-> <<>>, hasOptions |-> FALSE, maxSources |-> {},
     includeMetadata |-> {}, temperature |-> {}]

NoRequest ==
    [state |-> "none",     \* "none", "waiting" (await), "answered", "next" (next(error))
     body |-> NoBody,      \* req.body
     status |-> 0,         \* the status of the answer: 200, 400, or 0 for none
     call |-> 0]           \* the query() call made for the request, 0 for none

EmptyChat ==
    [messages |-> <<>>,    \* useState<ChatMessage[]>([])
     input |-> <<>>,       \* useState('')
     status |-> "idle",    \* of the mutation: "idle", "pending", "success", "error"
     inFlight |-> <<>>,    \* the questions of the requests not yet answered
     submits |-> 0,        \* handleSubmit calls
     accepted |-> 0,       \* mutation.mutate calls
     succeeded |-> 0]      \* onSuccess calls

Init ==
    /\ isInitialized = FALSE
    /\ probe = "running"
    /\ testProcess = ProbeSpawned
    /\ queryCount = 0
    /\ totalQueryTime = 0
    /\ query = [q \in Q |-> IdleQuery]
    /\ request = [r \in Requests |-> NoRequest]
    /\ chat = EmptyChat

\* -------------------------------------------------------------- getStats()
\* a / b of two numbers, kept as the fraction; b = 0 is JavaScript's NaN or
\* Infinity.
Quotient(a, b) == [num |-> a, den |-> b]
Zero == Quotient(0, 1)

\* Mutant of GetStats: the average is computed without the test of queryCount.
GetStatsUnguarded ==
    [totalChunks |-> TotalChunks,
     averageQueryTime |-> Quotient(totalQueryTime, queryCount),
     totalQueries |-> queryCount,
     systemHealth |-> IF isInitialized THEN "healthy" ELSE "error"]

\* Mutant of GetStats: the health follows the backend, as the queries saw it.
GetStatsBackendHealth ==
    [totalChunks |-> TotalChunks,
     averageQueryTime |-> IF queryCount > 0
                          THEN Quotient(totalQueryTime, queryCount)
                          ELSE Zero,
     totalQueries |-> queryCount,
     systemHealth |-> IF isInitialized /\ \A q \in Q : query[q].promise # "rejected"
                      THEN "healthy" ELSE "error"]

\* What getStats() returns in the current state (categories left out).
GetStats ==
    [totalChunks |-> TotalChunks,
     averageQueryTime |-> IF queryCount > 0
                          THEN Quotient(totalQueryTime, queryCount)
                          ELSE Zero,
     totalQueries |-> queryCount,
     systemHealth |-> IF isInitialized THEN "healthy" ELSE "error"]

\* Mutant of Settle: every call of resolve / reject resumes the caller.
SettleAlways(c, by, outcome) ==
    [c EXCEPT !.promise = IF outcome.settle = "resolve"
                           THEN "fulfilled" ELSE "rejected",
              !.outcome = outcome,
              !.resumes = @ + 1,
              !.settledBy = by]

\* ------------------------------------------------------ promise semantics
\* resolve(...) / reject(...) of `new Promise((resolve, reject) => ...)`:
\* only the first call settles the promise and resumes the awaiting caller.
Settle(c, by, outcome) ==
    IF c.promise = "pending"
    THEN [c EXCEPT !.promise = IF outcome.settle = "resolve"
                                THEN "fulfilled" ELSE "rejected",
                   !.outcome = outcome,
                   !.resumes = @ + 1,
                   !.settledBy = by]
    ELSE c

ProbeClosed(code, printed) ==
    [testProcess EXCEPT !.closed = TRUE, !.code = code, !.printed = printed]

\* Mutant of ProbeClose: isInitialized is set without the probe's verdict.
ProbeCloseUnchecked(code, printed) ==
    /\ probe = "running"
    /\ probe' = IF code = 0 /\ printed THEN "ok" ELSE "failed"
    /\ testProcess' = ProbeClosed(code, printed)
    /\ isInitialized' = TRUE
    /\ UNCHANGED <<queryCount, totalQueryTime, query, request, chat>>

\* Mutant of ProbeClose: the exit code alone decides.
ProbeCloseCodeOnly(code, printed) ==
    /\ probe = "running"
    /\ probe' = IF code = 0 THEN "ok" ELSE "failed"
    /\ testProcess' = ProbeClosed(code, printed)
    /\ isInitialized' = IF code = 0 THEN TRUE ELSE isInitialized
    /\ UNCHANGED <<queryCount, totalQueryTime, query, request, chat>>

\* ------------------------------------------------------------- the probe
\* testPythonEnvironment: 'close' with code 0 and "Python OK" in the output
\* resolves and initialize() sets isInitialized; any other close, or 'error',
\* rejects.  printed: the output includes "Python OK".
ProbeClose(code, printed) ==
    /\ probe = "running"
    /\ probe' = IF code = 0 /\ printed THEN "ok" ELSE "failed"
    /\ testProcess' = ProbeClosed(code, printed)
    /\ isInitialized' = IF code = 0 /\ printed THEN TRUE ELSE isInitialized
    /\ UNCHANGED <<queryCount, totalQueryTime, query, request, chat>>

ProbeError ==
    /\ probe = "running"
    /\ probe' = "failed"
    /\ UNCHANGED <<isInitialized, testProcess, queryCount, totalQueryTime, query, request, chat>>

\* Mutant of Dispatch: a spawn that fails is tried a second time.
DispatchRetried(c, options, beh) ==
    [c EXCEPT !.state = "dispatched",
              !.options = options,
              !.promise = "pending",
              !.spawns = IF beh.starts THEN @ + 1 ELSE @ + 2,
              !.proc = IF beh.starts THEN "running" ELSE "failed",
              !.errorEv = IF beh.starts THEN "no" ELSE "pending",
              !.beh = beh,
              !.script = PythonScript(c.question, options),
              !.out = ProcessStdout(PythonScript(c.question, options), beh, options),
              !.timer = "armed",
              !.elapsed = 0]

\* ---------------------------------------------------------------- query()
\* query(question, options): throws when not initialized; otherwise spawns
\* the process, registers the handlers and arms the 60 s timer.
Dispatch(c, options, beh) ==
    [c EXCEPT !.state = "dispatched",
              !.options = options,
              !.promise = "pending",
              !.spawns = @ + 1,
              !.proc = IF beh.starts THEN "running" ELSE "failed",
              !.errorEv = IF beh.starts THEN "no" ELSE "pending",
              !.beh = beh,
              !.script = PythonScript(c.question, options),
              !.out = ProcessStdout(PythonScript(c.question, options), beh, options),
              !.timer = "armed",
              !.elapsed = 0]

\* Mutant of NotInitialized: a call made before the probe has finished waits
\* for it.
NotInitializedWaits(c, options) ==
    [c EXCEPT !.state = "waiting",
              !.options = options,
              !.promise = "pending"]

NotInitialized(c, options) ==
    [c EXCEPT !.state = "thrown",
              !.options = options,
              !.promise = "rejected",
              !.outcome = Reject("RAG service not initialized", ""),
              !.resumes = @ + 1,
              !.settledBy = "throw"]

QueryCall(q, question, options, beh) ==
    /\ query[q].state = "idle"
    /\ IF q = 1 THEN TRUE ELSE query[q - 1].state # "idle"
    /\ LET c == [query[q] EXCEPT !.question = question,
                                 !.initAtCall = isInitialized,
                                 !.probeAtCall = probe]
       IN  query' = [query EXCEPT ![q] =
                        IF ~isInitialized
                        THEN NotInitialized(c, options)
                        ELSE Dispatch(c, options, beh)]
    /\ UNCHANGED <<isInitialized, probe, testProcess, queryCount, totalQueryTime>>

\* query() called by a caller other than the router.
Query(q, question, options, beh) ==
    /\ QueryCall(q, question, options, beh)
    /\ UNCHANGED <<request, chat>>

\* ------------------------------------------------- the process at work
\* The process reaches its end: what it printed is flushed to the pipe and it
\* exits.  A SIGTERM already sent may arrive too late to stop this.
ProcExit(q) ==
    /\ query[q].proc = "running"
    /\ query[q].beh.ends
    /\ query' = [query EXCEPT ![q].proc = "exited",
                              ![q].pipe = query[q].out,
                              ![q].closeEv = "pending"]
    /\ UNCHANGED <<isInitialized, probe, testProcess, queryCount, totalQueryTime, request, chat>>

\* SIGTERM ends a process that does not handle it; what it had buffered for
\* stdout is lost.
ProcTerminated(q) ==
    /\ query[q].proc = "running"
    /\ query[q].sigterm
    /\ ~query[q].beh.ignoresTerm
    /\ query' = [query EXCEPT ![q].proc = "exited",
                              ![q].closeEv = "pending"]
    /\ UNCHANGED <<isInitialized, probe, testProcess, queryCount, totalQueryTime, request, chat>>

\* Mutant of OnData: one buffer for all the calls.
OnDataShared(q) ==
    /\ query[q].pipe # <<>>
    /\ query' = [p \in Q |->
                    [query[p] EXCEPT !.stdout = @ \o query[q].pipe,
                                     !.pipe = IF p = q THEN <<>> ELSE @]]
    /\ UNCHANGED <<isInitialized, probe, testProcess, queryCount, totalQueryTime, request, chat>>

\* pythonProcess.stdout.on('data', data => stdout += data.toString())
OnData(q) ==
    /\ query[q].pipe # <<>>
    /\ query' = [query EXCEPT ![q].stdout = @ \o query[q].pipe,
                              ![q].pipe = <<>>]
    /\ UNCHANGED <<isInitialized, probe, testProcess, queryCount, totalQueryTime, request, chat>>

\* ------------------------------------------------------------ the handlers
\* pythonProcess.on('close', code => ...): statistics, then the parse, the
\* save on success, and resolve / reject.  'close' comes after the streams
\* have been read to their end.
CloseEffects(c, outcome) ==
    LET late == c.promise # "pending"
        saves == IF outcome.settle = "resolve" THEN 1 ELSE 0
        d == [c EXCEPT !.closeEv = "handled",
                       !.counted = @ + 1,
                       !.duration = c.elapsed,
                       !.lateCounted = IF late THEN @ + 1 ELSE @,
                       !.saved = @ + saves,
                       !.save = IF saves = 1 THEN "pending" ELSE @,
                       !.lateSaved = IF late THEN @ + saves ELSE @,
                       !.closeOutcome = outcome,
                       !.resultMatch =
                           RegexMatch(c.stdout, "RESULT_START", "RESULT_END"),
                       !.errorMatch =
                           RegexMatch(c.stdout, "ERROR_START", "ERROR_END")]
    IN  Settle(d, "close", outcome)

\* Mutant of CloseHandler: a process that exited with a code other than 0
\* has failed, whatever it printed.
CloseHandlerCodeChecked(c) ==
    CloseEffects(c, IF c.beh.code # 0
                    THEN Reject("Python process failed", "")
                    ELSE ParseOutput(c.stdout))

\* The handler's argument `code` (c.beh.code) is logged and not read again.
CloseHandler(c) == CloseEffects(c, ParseOutput(c.stdout))

OnClose(q) ==
    /\ query[q].closeEv = "pending"
    /\ query[q].pipe = <<>>
    /\ query' = [query EXCEPT ![q] = CloseHandler(query[q])]
    /\ queryCount' = queryCount + 1
    /\ totalQueryTime' = totalQueryTime + query'[q].duration
    /\ UNCHANGED <<isInitialized, probe, testProcess, request, chat>>

\* Mutant of SaveQueryDone: a failed write is handed to the caller.
SaveQueryDoneRethrown(c, ok) ==
    IF ok THEN [c EXCEPT !.save = "ok"]
    ELSE [c EXCEPT !.save = "failed",
                   !.promise = "rejected",
                   !.outcome = Reject("Error saving query to database", "")]

\* saveQuery: `await db.query.create(...)` comes back, or throws into the
\* catch that logs the error; the promise saveQuery returned is fulfilled
\* either way, so the .catch of the 'close' handler has nothing to log.
SaveQueryDone(c, ok) ==
    IF ok THEN [c EXCEPT !.save = "ok"]
    ELSE [c EXCEPT !.save = "failed", !.logged = @ + 1]

OnSaveDone(q, ok) ==
    /\ query[q].save = "pending"
    /\ query' = [query EXCEPT ![q] = SaveQueryDone(query[q], ok)]
    /\ UNCHANGED <<isInitialized, probe, testProcess, queryCount, totalQueryTime, request, chat>>

\* pythonProcess.on('error', error => reject(error)).  After 'error' the
\* runtime may or may not emit 'close'.
ErrorHandler(c) ==
    Settle([c EXCEPT !.errorEv = "handled",
                     !.closeEv = IF c.beh.closeAfterError /\ c.closeEv = "no"
                                 THEN "pending" ELSE @],
           "error", Reject("spawn error", ""))

OnError(q) ==
    /\ query[q].errorEv = "pending"
    /\ query' = [query EXCEPT ![q] = ErrorHandler(query[q])]
    /\ UNCHANGED <<isInitialized, probe, testProcess, queryCount, totalQueryTime, request, chat>>

\* Mutant of TimeoutHandler: the timer kills the process and rejects nothing.
TimeoutHandlerKillOnly(c) ==
    [c EXCEPT !.timer = "fired",
              !.kills = @ + 1,
              !.sigterm = IF c.proc = "running" THEN TRUE ELSE @]

\* setTimeout(() => { pythonProcess.kill(); reject(timeout) }, 60000).
\* kill() sends SIGTERM; on a process that is gone it does nothing.
TimeoutHandler(c) ==
    LET late == c.promise # "pending"
        d == [c EXCEPT !.timer = "fired",
                       !.kills = @ + 1,
                       !.lateSignals = IF late /\ c.proc = "running" THEN @ + 1 ELSE @,
                       !.sigterm = IF c.proc = "running" THEN TRUE ELSE @]
    IN  Settle(d, "timer", Reject("RAG query timeout", ""))

TimerDue(c) == c.timer = "armed" /\ c.elapsed >= TimeoutMs

OnTimeout(q) ==
    /\ TimerDue(query[q])
    /\ query' = [query EXCEPT ![q] = TimeoutHandler(query[q])]
    /\ UNCHANGED <<isInitialized, probe, testProcess, queryCount, totalQueryTime, request, chat>>

\* ------------------------------------------------------------------ time
\* Date.now() moves on, in steps of half the timeout, for every call that
\* still waits for its timer or for its 'close'.  A step is long: the event
\* loop runs the handlers that are ready before a whole step has passed (a
\* due timer and an emitted 'close' are both ready, in either order).
Waiting(c) ==
    /\ c.state = "dispatched"
    /\ c.timer = "armed" \/ c.closeEv = "pending" \/ c.proc = "running"
    /\ c.elapsed < MaxElapsed

Ready(c) ==
    \/ c.pipe # <<>>
    \/ c.closeEv = "pending"
    \/ c.errorEv = "pending"
    \/ TimerDue(c)

Tick ==
    /\ \E q \in Q : Waiting(query[q])
    /\ \A q \in Q : ~Ready(query[q])
    /\ query' = [q \in Q |->
                    IF Waiting(query[q])
                    THEN [query[q] EXCEPT !.elapsed = @ + TickMs]
                    ELSE query[q]]
    /\ UNCHANGED <<isInitialized, probe, testProcess, queryCount, totalQueryTime, request, chat>>

\* ------------------------------------------------------------ POST /query
\* z.number().min(lo).max(hi).optional()
ZNumber(field, lo, hi) == \A x \in field : lo <= x /\ x <= hi

\* Mutant of QuerySchemaValid: maxSources without its lower bound.
QuerySchemaValidNoMin(body) ==
    /\ MinQuestionChars <= StrLen(body.question)
    /\ StrLen(body.question) <= MaxQuestionChars
    /\ \A x \in body.maxSources : x <= MaxSources
    /\ ZNumber(body.temperature, MinTemperature, MaxTemperature)

\* querySchema.parse(req.body) returns and does not throw a ZodError.
QuerySchemaValid(body) ==
    /\ MinQuestionChars <= StrLen(body.question)
    /\ StrLen(body.question) <= MaxQuestionChars
    /\ ZNumber(body.maxSources, MinSources, MaxSources)
    /\ ZNumber(body.temperature, MinTemperature, MaxTemperature)

\* The options querySchema.parse returns: an absent field, or absent options,
\* get the defaults.
QuerySchemaOptions(body) ==
    [maxSources |-> ValueOr(body.maxSources, SchemaMaxSources),
     includeMetadata |-> ValueOr(body.includeMetadata, TRUE),
     temperature |-> ValueOr(body.temperature, DefaultTemperature)]

\* ragRouter.post('/query') up to its await: the body is parsed; a ZodError is
\* answered with status 400, and otherwise ragService.query is called.
PostQuery(r, q, body, beh) ==
    /\ request[r].state = "none"
    /\ IF r = 1 THEN TRUE ELSE request[r - 1].state # "none"
    /\ IF ~QuerySchemaValid(body)
       THEN /\ request' = [request EXCEPT ![r] =
                              [state |-> "answered", body |-> body,
                               status |-> 400, call |-> 0]]
            /\ UNCHANGED <<isInitialized, probe, testProcess, queryCount,
                           totalQueryTime, query>>
       ELSE /\ QueryCall(q, body.question, QuerySchemaOptions(body), beh)
            /\ request' = [request EXCEPT ![r] =
                              [state |-> "waiting", body |-> body,
                               status |-> 0, call |-> q]]
    /\ UNCHANGED chat

\* ragRouter.post('/query') after its await: res.json for a result, and
\* next(error) for an error of query().
RespondQuery(r) ==
    /\ request[r].state = "waiting"
    /\ query[request[r].call].promise \in {"fulfilled", "rejected"}
    /\ request' = [request EXCEPT ![r] =
                      IF query[request[r].call].promise = "fulfilled"
                      THEN [@ EXCEPT !.state = "answered", !.status = 200]
                      ELSE [@ EXCEPT !.state = "next"]]
    /\ UNCHANGED <<isInitialized, probe, testProcess, queryCount, totalQueryTime,
                   query, chat>>

\* ---------------------------------------------------------- the chat page
SP == Ch(" ")
LetterA == Ch("a")

\* String.prototype.trim
RECURSIVE TrimStart(_)
TrimStart(str) ==
    IF str # <<>> /\ Head(str) = SP THEN TrimStart(Tail(str)) ELSE str

RECURSIVE TrimEnd(_)
TrimEnd(str) ==
    IF str # <<>> /\ str[Len(str)] = SP
    THEN TrimEnd(SubSeq(str, 1, Len(str) - 1))
    ELSE str

Trim(str) == TrimEnd(TrimStart(str))

ChatMessage(type, content) == [type |-> type, content |-> content]

\* data.data.answer
Answer == <<LetterA, LetterA>>

\* Mutant of handleSubmit: mutation.isPending is not looked at.
handleSubmitWhilePending(c) ==
    IF Trim(c.input) = <<>>
    THEN [c EXCEPT !.submits = @ + 1]
    ELSE [c EXCEPT !.submits = @ + 1,
                   !.messages = Append(@, ChatMessage("user", c.input)),
                   !.status = "pending",
                   !.inFlight = Append(@, c.input),
                   !.accepted = @ + 1,
                   !.input = <<>>]

\* handleSubmit: nothing for a blank input or a pending mutation; otherwise
\* the user's message is appended, the mutation started and the input cleared.
handleSubmit(c) ==
    IF Trim(c.input) = <<>> \/ c.status = "pending"
    THEN [c EXCEPT !.submits = @ + 1]
    ELSE [c EXCEPT !.submits = @ + 1,
                   !.messages = Append(@, ChatMessage("user", c.input)),
                   !.status = "pending",
                   !.inFlight = Append(@, c.input),
                   !.accepted = @ + 1,
                   !.input = <<>>]

Remove(seq, i) == SubSeq(seq, 1, i - 1) \o SubSeq(seq, i + 1, Len(seq))

\* The mutation of request i ends: onSuccess appends the assistant's message,
\* onError shows a toast.  isPending follows the last mutation started.
MutationEnd(c, i, ok) ==
    [c EXCEPT !.inFlight = Remove(@, i),
              !.status = IF i < Len(c.inFlight) THEN @
                         ELSE IF ok THEN "success" ELSE "error",
              !.messages = IF ok THEN Append(@, ChatMessage("assistant", Answer))
                           ELSE @,
              !.succeeded = IF ok THEN @ + 1 ELSE @]

ServiceVars == <<isInitialized, probe, testProcess, queryCount, totalQueryTime, query>>

\* onChange, a suggestion, or the question the page was opened with.
SetInput(text) ==
    /\ chat.input # text
    /\ chat' = [chat EXCEPT !.input = text]
    /\ UNCHANGED <<ServiceVars, request>>

Submit ==
    /\ chat.submits < MaxSubmits
    /\ chat' = handleSubmit(chat)
    /\ UNCHANGED <<ServiceVars, request>>

OnSuccess(i) ==
    /\ i \in 1..Len(chat.inFlight)
    /\ chat' = MutationEnd(chat, i, TRUE)
    /\ UNCHANGED <<ServiceVars, request>>

OnErrorToast(i) ==
    /\ i \in 1..Len(chat.inFlight)
    /\ chat' = MutationEnd(chat, i, FALSE)
    /\ UNCHANGED <<ServiceVars, request>>

\* ------------------------------------------------------------ the inputs
WithMaxSources(n) == [includeMetadata |-> TRUE, maxSources |-> n]

\* Spec: the script around an engine that answers, raises, fails to import,
\* or hangs; a process that handles SIGTERM or not; a spawn that fails.
ExitCode(outcome) == IF outcome = "none" THEN 1 ELSE 0

SpecBehaviours ==
    {Behaviour(TRUE, FALSE, <<>>, o, IF o = "result" THEN Chunks(MaxChunks) ELSE <<>>,
               TRUE, FALSE, ExitCode(o)) :
        o \in {"result", "exception", "none"}}
    \cup {Behaviour(TRUE, FALSE, <<>>, "result", Chunks(MaxChunks), TRUE, TRUE, 0)}
    \cup {Behaviour(TRUE, FALSE, <<>>, "none", <<>>, FALSE, i, 0) : i \in BOOLEAN}
    \cup {Behaviour(FALSE, e, <<>>, "none", <<>>, FALSE, FALSE, 0) : e \in BOOLEAN}

SpecOptions == {NoOptions}

\* A question of plain letters.
PlainQuestion == <<Run(1)>>

\* The sources of a result line that is on stdout whoever printed it: each
\* source stands for itself and is named by its page.
PrintedSources(k) == [i \in 1..k |-> i]

\* SpecParse: any text of up to MaxLen lines on stdout.
ParseLines ==
    {RS, RE, ES, EE, Noise,
     JsonLine(JsonObject(TRUE, PrintedSources(MaxChunks), "", "")),
     JsonLine(JsonObject(FALSE, <<>>, "boom", "ValueError"))}

Texts == UNION {[1..n -> ParseLines] : n \in 0..MaxLen}

ParseBehaviours ==
    {Behaviour(TRUE, FALSE, text, "none", <<>>, TRUE, FALSE, 0) : text \in Texts}

\* ------------------------------------------------------- specifications
LiveQ == 1..MaxLiveQueries

\* The probe exits with code 0 or with another code.
ProbeCodes == {0, 1}

NextFor(S, B) ==
    \/ \E code \in ProbeCodes, printed \in BOOLEAN : ProbeClose(code, printed)
    \/ ProbeError
    \/ \E q \in S, o \in SpecOptions, b \in B : Query(q, PlainQuestion, o, b)
    \/ \E q \in S : ProcExit(q)
    \/ \E q \in S : ProcTerminated(q)
    \/ \E q \in S : OnData(q)
    \/ \E q \in S : OnClose(q)
    \/ \E q \in S : OnError(q)
    \/ \E q \in S : OnTimeout(q)
    \/ Tick

Next == NextFor(Q, SpecBehaviours)

Spec == Init /\ [][Next]_vars

\* One call whose process has printed its text and exited when the timer is
\* due: the 'close' handler and the timer callback are both about to run.
Captured(o, b) ==
    LET c == Dispatch([IdleQuery EXCEPT !.question = PlainQuestion,
                                        !.initAtCall = TRUE,
                                        !.probeAtCall = "ok"],
                      o, b)
    IN  [c EXCEPT !.proc = "exited", !.stdout = c.out, !.closeEv = "pending",
                  !.elapsed = TimeoutMs]

InitParse ==
    /\ isInitialized = TRUE
    /\ probe = "ok"
    /\ testProcess = [ProbeSpawned EXCEPT !.closed = TRUE, !.printed = TRUE]
    /\ queryCount = 0
    /\ totalQueryTime = 0
    /\ \E o \in SpecOptions, b \in ParseBehaviours :
          query = [q \in Q |-> IF q = 1 THEN Captured(o, b) ELSE IdleQuery]
    /\ request = [r \in Requests |-> NoRequest]
    /\ chat = EmptyChat

NextParse ==
    \/ OnClose(1)
    \/ OnTimeout(1)

SpecParse == InitParse /\ [][NextParse]_vars

\* Two calls whose processes have printed the same text and exited, the first
\* with code 0 and the second with another code.
OtherCodes == {1, 2}

CodeTexts == UNION {[1..n -> ParseLines] : n \in 0..(MaxLen - 2)}

CodeBehaviour(text, code) == Behaviour(TRUE, FALSE, text, "none", <<>>, TRUE, FALSE, code)

InitCode ==
    /\ isInitialized = TRUE
    /\ probe = "ok"
    /\ testProcess = [ProbeSpawned EXCEPT !.closed = TRUE, !.printed = TRUE]
    /\ queryCount = 0
    /\ totalQueryTime = 0
    /\ \E o \in SpecOptions, text \in CodeTexts, code \in OtherCodes :
          query = [q \in Q |->
                     IF q = 1 THEN Captured(o, CodeBehaviour(text, 0))
                     ELSE IF q = 2 THEN Captured(o, CodeBehaviour(text, code))
                     ELSE IdleQuery]
    /\ request = [r \in Requests |-> NoRequest]
    /\ chat = EmptyChat

NextCode ==
    \/ \E q \in {1, 2} : OnClose(q)
    \/ \E q \in {1, 2} : OnTimeout(q)

SpecCode == InitCode /\ [][NextCode]_vars

\* SpecScript: one call with any question of up to MaxQuestionLen characters
\* out of a double quote, a backslash, a newline and two letters, any options,
\* and an engine that returns one chunk or raises.
QuestionChars == {DQ, BS, LF, LetterN, Run(1)}

Questions == UNION {[1..n -> QuestionChars] : n \in 0..MaxQuestionLen}

ScriptOptions ==
    [maxSources : {1, DefaultMaxSources}, includeMetadata : BOOLEAN,
     temperature : {DefaultTemperature, MaxTemperature}]

\* Contents around the length at which the script cuts, of one run of letters
\* or of several.
Contents ==
    {<<>>, <<DQ>>, <<Run(ExcerptLen - 1), DQ, Run(2)>>}
    \cup {<<Run(n)>> : n \in {ExcerptLen - 1, ExcerptLen, ExcerptLen + 1,
                               ExcerptLen + 100}}

Chunk(page, content) == [page |-> page, content |-> content]

ScriptBehaviours ==
    {Behaviour(TRUE, FALSE, <<>>, "result", <<Chunk(1, content)>>, TRUE, FALSE, 0) :
        content \in Contents}
    \cup {Behaviour(TRUE, FALSE, <<>>, "exception", <<>>, TRUE, FALSE, 0)}

InitScript ==
    /\ isInitialized = TRUE
    /\ probe = "ok"
    /\ testProcess = [ProbeSpawned EXCEPT !.closed = TRUE, !.printed = TRUE]
    /\ queryCount = 0
    /\ totalQueryTime = 0
    /\ query = [q \in Q |-> IdleQuery]
    /\ request = [r \in Requests |-> NoRequest]
    /\ chat = EmptyChat

NextScript ==
    \/ \E question \in Questions, o \in ScriptOptions, b \in ScriptBehaviours :
          Query(1, question, o, b)
    \/ ProcExit(1)
    \/ OnData(1)
    \/ OnClose(1)

SpecScript == InitScript /\ [][NextScript]_vars

\* SpecHttp: MaxRequests requests to POST /query, one after the other or
\* overlapping, with bodies at and around every limit of the schema; the
\* first valid one is followed through query().
HttpQuestions ==
    {<<>>, <<Run(MinQuestionChars)>>, <<Run(MaxQuestionChars)>>,
     <<Run(MaxQuestionChars + 1)>>}

Body(question, hasOptions, maxSources, temperature) ==
    [question |-> question, hasOptions |-> hasOptions, maxSources |-> maxSources,
     includeMetadata |-> {}, temperature |-> temperature]

Bodies ==
    {Body(question, FALSE, {}, {}) : question \in HttpQuestions}
    \cup {Body(question, TRUE, {}, {}) : question \in HttpQuestions}
    \cup {Body(question, TRUE, {m}, {}) :
             question \in HttpQuestions,
             m \in {MinSources - 1, MinSources, MaxSources, MaxSources + 1}}
    \cup {Body(question, TRUE, {}, {t}) :
             question \in HttpQuestions,
             t \in {MinTemperature - 1, MinTemperature, MaxTemperature,
                    MaxTemperature + 1}}

HttpBehaviours ==
    {Behaviour(TRUE, FALSE, <<>>, o, IF o = "result" THEN Chunks(1) ELSE <<>>,
               TRUE, FALSE, 0) : o \in {"result", "exception"}}

NextHttp ==
    \/ \E code \in ProbeCodes, printed \in BOOLEAN : ProbeClose(code, printed)
    \/ \E r \in Requests, body \in Bodies, b \in HttpBehaviours :
          PostQuery(r, 1, body, b)
    \/ \E r \in Requests : RespondQuery(r)
    \/ ProcExit(1)
    \/ OnData(1)
    \/ OnClose(1)

SpecHttp == Init /\ [][NextHttp]_vars

\* SpecChat: the chat page with MaxSubmits submits and a server that answers
\* or fails.
ChatInputs == {<<>>, <<SP>>, <<LetterA>>, <<SP, LetterA, SP>>}

NextChat ==
    \/ \E text \in ChatInputs : SetInput(text)
    \/ Submit
    \/ \E i \in 1..MaxSubmits : OnSuccess(i)
    \/ \E i \in 1..MaxSubmits : OnErrorToast(i)

SpecChat == Init /\ [][NextChat]_vars

\* SpecSave follows MaxLiveQueries calls through the write of their result:
\* the database answers, fails, or does neither.  The other specifications
\* leave a started write pending; nothing they read depends on its end.
NextSave ==
    \/ NextFor(LiveQ, SpecBehaviours)
    \/ \E q \in LiveQ, ok \in BOOLEAN : OnSaveDone(q, ok)

SpecSave == Init /\ [][NextSave]_vars

\* The scheduling the runtime guarantees: time passes, a due timer's callback
\* runs, an emitted event's handler runs, unread output is read, and SIGTERM
\* ends a process that does not handle it.  Nothing makes a process end by
\* itself, and nothing makes a caller call.
Fairness ==
    /\ WF_vars(Tick)
    /\ \A q \in Q : WF_vars(OnTimeout(q))
    /\ \A q \in Q : WF_vars(OnClose(q))
    /\ \A q \in Q : WF_vars(OnError(q))
    /\ \A q \in Q : WF_vars(OnData(q))
    /\ \A q \in Q : WF_vars(ProcTerminated(q))

\* FairSpec follows MaxLiveQueries calls.
NextLive == NextFor(LiveQ, SpecBehaviours)

FairSpec == Init /\ [][NextLive]_vars /\ Fairness

\* ------------------------------------------------------------------ claims
Dispatched(q) == query[q].state = "dispatched"
Closed(q) == query[q].closeEv = "handled"

\* A start marker line followed, after at least one line, by an end marker line.
HasRegion(s, start, end) ==
    \E i \in 1..Len(s) : \E j \in (i + 2)..Len(s) :
        s[i].kind = start /\ s[j].kind = end

\* The first start marker that has an end marker after at least one line, up
\* to the first such end marker.
FirstPair(s, start, end) ==
    IF ~HasRegion(s, start, end) THEN NoMatch
    ELSE LET i == Min({k \in 1..Len(s) :
                         s[k].kind = start
                         /\ \E j \in (k + 2)..Len(s) : s[j].kind = end})
             j == Min({k \in (i + 2)..Len(s) : s[k].kind = end})
         IN  [found |-> TRUE, group |-> SubSeq(s, i + 1, j - 1)]

\* C1: the caller of query() is resumed at most once, with a result or with
\* an error, whatever the order of 'close', 'error' and the timer.
C1_ResumedAtMostOnce ==
    \A q \in Q :
        /\ query[q].resumes <= 1
        /\ query[q].resumes = 1 <=> query[q].promise \in {"fulfilled", "rejected"}
        /\ query[q].promise = "fulfilled" => query[q].outcome.settle = "resolve"
        /\ query[q].promise = "rejected" => query[q].outcome.settle = "reject"

C1_Witness ==
    \E q \in Q :
        /\ Closed(q)
        /\ query[q].errorEv = "handled"
        /\ query[q].timer = "fired"
        /\ query[q].resumes = 1

C3_NotInitializedFailsFast ==
    /\ probe = "failed" => ~isInitialized
    /\ \A q \in Q :
          query[q].probeAtCall = "failed" =>
              /\ query[q].state = "thrown"
              /\ query[q].promise = "rejected"
              /\ query[q].outcome = Reject("RAG service not initialized", "")
              /\ query[q].spawns = 0
              /\ query[q].proc = "none"
              /\ query[q].timer = "none"

C3_Witness ==
    \E q \in Q : query[q].probeAtCall = "failed" /\ query[q].state = "thrown"

\* C4: a dispatched query does not stay pending for ever; when its process
\* never ends by itself the query fails with the timeout error, and a query
\* the timer settled has the timeout error and no result.
C4_TimeoutFidelity ==
    /\ \A q \in Q : Dispatched(q) ~> (query[q].promise # "pending")
    /\ \A q \in Q :
          (Dispatched(q) /\ query[q].beh.starts /\ ~query[q].beh.ends)
              ~> (query[q].outcome = Reject("RAG query timeout", ""))
    /\ [](\A q \in Q :
            query[q].settledBy = "timer" =>
                /\ query[q].promise = "rejected"
                /\ query[q].outcome = Reject("RAG query timeout", "")
                /\ query[q].elapsed >= TimeoutMs)

C4_Witness ==
    \E q \in Q :
        /\ query[q].settledBy = "timer"
        /\ query[q].proc = "running"
        /\ ~query[q].beh.ends

\* C5: once the timer has fired on a running process, the process is
\* eventually not running, whatever it does with the termination request.
C5_KilledOnTimeout ==
    \A q \in Q :
        (query[q].timer = "fired" /\ query[q].proc = "running")
            ~> (query[q].proc # "running")

\* C6: the loser of the race has no effect: after 'close' settled the query
\* its timer sends no signal and settles nothing; after the timer settled it
\* the 'close' handler updates no statistics, saves nothing, settles nothing.
C6_LoserCancelled ==
    \A q \in Q :
        /\ query[q].resumes <= 1
        /\ query[q].settledBy = "close" => query[q].lateSignals = 0
        /\ query[q].settledBy = "timer" =>
              query[q].lateCounted = 0 /\ query[q].lateSaved = 0

\* C7: output whose first error region holds an error payload and which also
\* holds a result region, before or after it: the 'close' handler rejects
\* with the backend error and the query is never resolved.
ErrorAndResultRegions(s) ==
    LET first == FirstPair(s, "ERROR_START", "ERROR_END")
    IN  /\ first.found
        /\ Len(first.group) = 1
        /\ first.group[1].kind = "json"
        /\ first.group[1].json.t = "object"
        /\ HasRegion(s, "RESULT_START", "RESULT_END")

C7_ErrorPrecedence ==
    \A q \in Q :
        (Closed(q) /\ ErrorAndResultRegions(query[q].stdout))
        => /\ query[q].closeOutcome.error = "RAG Error"
           /\ query[q].promise # "fulfilled"

\* C8: text, one result region with its payload, text: the group extracted
\* for the result is that payload line and nothing else.
OnlyResultStart(s, i) ==
    /\ i + 2 <= Len(s)
    /\ s[i].kind = "RESULT_START"
    /\ \A k \in 1..Len(s) : s[k].kind = "RESULT_START" => k = i
    /\ s[i + 1].kind = "json"
    /\ s[i + 2].kind = "RESULT_END"

C8_NoiseTolerance ==
    \A q \in Q :
        Closed(q) =>
            \A i \in 1..Len(query[q].stdout) :
                OnlyResultStart(query[q].stdout, i) =>
                    /\ query[q].resultMatch.found
                    /\ query[q].resultMatch.group = <<query[q].stdout[i + 1]>>

\* C9: with several pairs of markers of one kind the group ends at the first
\* end marker that follows the first start marker.
C9_FirstPair ==
    \A q \in Q :
        Closed(q) =>
            /\ query[q].resultMatch =
                   FirstPair(query[q].stdout, "RESULT_START", "RESULT_END")
            /\ query[q].errorMatch =
                   FirstPair(query[q].stdout, "ERROR_START", "ERROR_END")

\* C10: output with neither a result region nor an error region: the
\* 'close' handler rejects with 'No valid result found in Python output',
\* and the query is never resolved.
C10_NoRegionIsProtocolViolation ==
    \A q \in Q :
        (/\ Closed(q)
         /\ ~HasRegion(query[q].stdout, "RESULT_START", "RESULT_END")
         /\ ~HasRegion(query[q].stdout, "ERROR_START", "ERROR_END"))
        => /\ query[q].closeOutcome =
                  Reject("No valid result found in Python output", "")
           /\ query[q].promise # "fulfilled"
           /\ query[q].saved = 0
           /\ query[q].settledBy = "close" =>
                  query[q].outcome = query[q].closeOutcome

C10_Witness ==
    \E q \in Q :
        /\ Closed(q)
        /\ query[q].settledBy = "close"
        /\ Len(query[q].stdout) >= 3
        /\ \E i \in 1..Len(query[q].stdout) : query[q].stdout[i].kind = "RESULT_START"
        /\ \E i \in 1..Len(query[q].stdout) : query[q].stdout[i].kind = "ERROR_END"
        /\ ~HasRegion(query[q].stdout, "RESULT_START", "RESULT_END")
        /\ ~HasRegion(query[q].stdout, "ERROR_START", "ERROR_END")

\* C11: two calls whose processes printed the same output and exited with
\* different codes: their 'close' handlers pass on the same outcome and save
\* alike, and the calls settle alike when the same handler settled them.
C11_ExitCodeNotAuthoritative ==
    \A p \in Q, q \in Q :
        (/\ Closed(p) /\ Closed(q)
         /\ query[p].stdout = query[q].stdout
         /\ query[p].beh.code # query[q].beh.code)
        => /\ query[p].closeOutcome = query[q].closeOutcome
           /\ query[p].saved = query[q].saved
           /\ query[p].settledBy = query[q].settledBy =>
                  query[p].outcome = query[q].outcome

C11_Witness ==
    \E p \in Q, q \in Q :
        /\ Closed(p) /\ Closed(q)
        /\ query[p].stdout = query[q].stdout
        /\ query[p].beh.code = 0
        /\ query[q].beh.code # 0
        /\ query[p].settledBy = "close"
        /\ query[q].settledBy = "close"
        /\ query[q].promise = "fulfilled"

\* The strings an Error handed to reject holds.
ErrorText(outcome) == {outcome.error, outcome.detail}

\* C12: output whose error region holds {success: false, error: m, type: t}:
\* the 'close' handler rejects with the backend error, which carries the
\* message m and the classification t.
C12_BackendErrorCarriesMessageAndType ==
    \A q \in Q :
        (/\ Closed(q)
         /\ query[q].errorMatch.found
         /\ Len(query[q].errorMatch.group) = 1
         /\ query[q].errorMatch.group[1].kind = "json"
         /\ query[q].errorMatch.group[1].json.t = "object"
         /\ ~query[q].errorMatch.group[1].json.success)
        => /\ query[q].closeOutcome.settle = "reject"
           /\ query[q].closeOutcome.error = "RAG Error"
           /\ query[q].errorMatch.group[1].json.error \in ErrorText(query[q].closeOutcome)
           /\ query[q].errorMatch.group[1].json.type \in ErrorText(query[q].closeOutcome)

\* The content of a region is one line holding a JSON document.
OnePayloadLine(group) == Len(group) = 1 /\ group[1].kind = "json"

\* The region the handler has to parse, error before result, is there and
\* its content is not a JSON document.
MalformedRegion(s) ==
    LET e == FirstPair(s, "ERROR_START", "ERROR_END")
        r == FirstPair(s, "RESULT_START", "RESULT_END")
    IN  \/ e.found /\ ~OnePayloadLine(e.group)
        \/ ~e.found /\ r.found /\ ~OnePayloadLine(r.group)

\* C13: a malformed error region, or without an error region a malformed
\* result region: the 'close' handler rejects with 'Failed to parse RAG
\* response', not with a backend error; nothing is saved and the query is
\* never resolved.
C13_MalformedRegionIsProtocolViolation ==
    \A q \in Q :
        (Closed(q) /\ MalformedRegion(query[q].stdout))
        => /\ query[q].closeOutcome = Reject("Failed to parse RAG response", "")
           /\ query[q].promise # "fulfilled"
           /\ query[q].saved = 0
           /\ query[q].settledBy = "close" =>
                  query[q].outcome = query[q].closeOutcome

C13_Witness ==
    \E q \in Q :
        /\ Closed(q)
        /\ query[q].settledBy = "close"
        /\ FirstPair(query[q].stdout, "ERROR_START", "ERROR_END").found
        /\ ~OnePayloadLine(FirstPair(query[q].stdout, "ERROR_START", "ERROR_END").group)
        /\ FirstPair(query[q].stdout, "RESULT_START", "RESULT_END").found
        /\ OnePayloadLine(FirstPair(query[q].stdout, "RESULT_START", "RESULT_END").group)
        /\ query[q].outcome = Reject("Failed to parse RAG response", "")

\* The handler's result group parsed to an object whose success flag is false.
ResultParsedUnsuccessful(c) ==
    /\ ~c.errorMatch.found
    /\ c.resultMatch.found
    /\ OnePayloadLine(c.resultMatch.group)
    /\ c.resultMatch.group[1].json.t = "object"
    /\ ~c.resultMatch.group[1].json.success

\* C14: a result region that parses to a payload whose success flag is
\* false: the 'close' handler rejects with 'RAG query failed', nothing is
\* saved and the query is never resolved.
C14_UnsuccessfulResultFails ==
    \A q \in Q :
        (Closed(q) /\ ResultParsedUnsuccessful(query[q]))
        => /\ query[q].closeOutcome = Reject("RAG query failed", "")
           /\ query[q].promise = "rejected"
           /\ query[q].outcome.result = NoJson
           /\ query[q].saved = 0
           /\ query[q].settledBy = "close" =>
                  query[q].outcome = query[q].closeOutcome

C14_Witness ==
    \E q \in Q :
        /\ Closed(q)
        /\ ResultParsedUnsuccessful(query[q])
        /\ query[q].settledBy = "close"
        /\ Len(query[q].stdout) > 3

\* C15: every dispatched query updates the statistics once, whatever path it
\* takes afterwards: the update is eventually made and never made twice.
C15_StatsExactlyOnce ==
    /\ \A q \in Q : Dispatched(q) ~> (query[q].counted = 1)
    /\ [](\A q \in Q : query[q].counted <= 1)

RECURSIVE SumOver(_, _)
SumOver(S, f) ==
    IF S = {} THEN 0
    ELSE LET x == CHOOSE y \in S : TRUE
         IN  f[x] + SumOver(S \ {x}, f)

\* The updates made so far are all in the totals, each once.
StatsMatchUpdates ==
    /\ queryCount = SumOver(Q, [q \in Q |-> query[q].counted])
    /\ totalQueryTime = SumOver(Q, [q \in Q |-> query[q].duration])

\* C16: the totals hold every update made, each once, and when all the
\* queries dispatched so far have completed (their callers have a result or
\* an error) queryCount is their number and totalQueryTime the sum of their
\* durations.
C16_StatsMatchCompletedAttempts ==
    LET attempts == {q \in Q : Dispatched(q)}
    IN  /\ StatsMatchUpdates
        /\ (\A q \in attempts : query[q].promise # "pending")
           => /\ queryCount = Cardinality(attempts)
              /\ \A q \in attempts : query[q].counted = 1

\* C17: getStats() reports totalQueries = queryCount and the average
\* totalQueryTime / queryCount when queryCount > 0, the sentinel 0 when
\* queryCount = 0, and never divides by 0.
C17_AverageGuarded ==
    /\ GetStats.totalQueries = queryCount
    /\ queryCount > 0 =>
          GetStats.averageQueryTime = Quotient(totalQueryTime, queryCount)
    /\ queryCount = 0 => GetStats.averageQueryTime = Zero
    /\ GetStats.averageQueryTime.den # 0

C17_Witness ==
    /\ queryCount > 1
    /\ totalQueryTime > 0
    /\ GetStats.averageQueryTime = Quotient(totalQueryTime, queryCount)

\* C19: getStats().systemHealth is 'healthy' exactly when the service is
\* initialized, which is exactly when the startup probe has succeeded,
\* whatever the queries' outcomes and the state of their processes.
C19_HealthIsInitialization ==
    /\ GetStats.systemHealth \in {"healthy", "error"}
    /\ GetStats.systemHealth = "healthy" <=> isInitialized
    /\ isInitialized <=> probe = "ok"

C19_Witness ==
    /\ GetStats.systemHealth = "healthy"
    /\ \E q \in Q :
          /\ query[q].outcome = Reject("RAG query timeout", "")
          /\ query[q].proc = "running"

\* The write of query q comes back, well or not.
SaveCompletes(q) == query[q].save = "pending" /\ query'[q].save # "pending"

\* C18: the write is attempted at most once per query, and whether it is
\* pending, done or failed the caller has what the 'close' handler (or the
\* timer before it) passed on; a failure is logged once, and the completion
\* of a write changes nothing of what the caller got.
C18_PersistenceIsBestEffort ==
    /\ [](\A q \in Q :
            /\ query[q].saved <= 1
            /\ query[q].save = "none" <=> query[q].saved = 0
            /\ query[q].logged = IF query[q].save = "failed" THEN 1 ELSE 0
            /\ query[q].save # "none" =>
                  /\ query[q].closeOutcome.settle = "resolve"
                  /\ query[q].resumes = 1
                  /\ query[q].settledBy = "close" =>
                        /\ query[q].promise = "fulfilled"
                        /\ query[q].outcome = query[q].closeOutcome
                  /\ query[q].settledBy # "close" =>
                        query[q].outcome = Reject("RAG query timeout", ""))
    /\ [][\A q \in Q :
            SaveCompletes(q) =>
                /\ query'[q].promise = query[q].promise
                /\ query'[q].outcome = query[q].outcome
                /\ query'[q].resumes = query[q].resumes
                /\ query'[q].saved = query[q].saved]_vars

C18_Witness ==
    \E q \in Q :
        /\ query[q].save = "failed"
        /\ query[q].logged = 1
        /\ query[q].promise = "fulfilled"
        /\ query[q].outcome.settle = "resolve"

\* C20: a query() call made on an initialized service has spawned one
\* process by the time it returns its promise, and no second one later,
\* whatever the call's outcome and however many other calls are in flight.
C20_OneProcessPerQuery ==
    \A q \in Q :
        (query[q].state # "idle" /\ query[q].initAtCall)
        => /\ query[q].state = "dispatched"
           /\ query[q].spawns = 1
           /\ query[q].proc # "none"

C20_Witness ==
    /\ \A q \in Q : query[q].proc = "running" /\ query[q].spawns = 1
    /\ \E q \in Q : query[q].promise = "rejected"

\* The kinds of failure a caller of query() is to tell apart.
ErrorKinds ==
    {"ServiceNotInitialized", "QueryTimeout", "ProtocolViolation",
     "ExternalBackendError"}

\* The kind of the failure a call ended with, by the place that rejected it:
\* the guard, the timer, a branch of the 'close' handler, or the 'error'
\* handler, which passes on the runtime's own error and belongs to no kind.
FailureKind(c) ==
    CASE c.settledBy = "throw" -> "ServiceNotInitialized"
      [] c.settledBy = "timer" -> "QueryTimeout"
      [] c.settledBy = "close" ->
           IF c.errorMatch.found
           THEN IF OnePayloadLine(c.errorMatch.group)
                THEN "ExternalBackendError" ELSE "ProtocolViolation"
           ELSE IF ~c.resultMatch.found \/ ~OnePayloadLine(c.resultMatch.group)
           THEN "ProtocolViolation"
           ELSE "ExternalBackendError"
      [] OTHER -> "none"

\* C21: every failed call is of one of the four kinds, and two failed calls
\* of different kinds have received different errors.
C21_FourKindsDistinguishable ==
    LET failed == {q \in Q : query[q].promise = "rejected"}
    IN  /\ \A q \in failed : FailureKind(query[q]) \in ErrorKinds
        /\ \A p \in failed, q \in failed :
              FailureKind(query[p]) # FailureKind(query[q]) =>
                  query[p].outcome # query[q].outcome

\* C26: whatever the other calls do, the output captured for a call is what
\* its own process printed, and the call ends as its own process, its own
\* output and its own clock say.
C26_QueriesIndependent ==
    \A q \in Q :
        /\ query[q].stdout \in {<<>>, ScriptStdout(query[q].beh, query[q].options)}
        /\ query[q].settledBy = "close" =>
              /\ query[q].proc = "exited" \/ ~query[q].beh.starts
              /\ query[q].outcome = ParseOutput(query[q].stdout)
        /\ query[q].settledBy = "timer" =>
              /\ query[q].elapsed >= TimeoutMs
              /\ query[q].outcome = Reject("RAG query timeout", "")
        /\ query[q].settledBy = "error" =>
              /\ ~query[q].beh.starts
              /\ query[q].outcome = Reject("spawn error", "")

C26_Witness ==
    \E p \in Q, q \in Q :
        /\ query[p].settledBy = "close" /\ query[p].promise = "fulfilled"
        /\ query[q].settledBy = "close" /\ query[q].promise = "rejected"
        /\ query[p].stdout # <<>> /\ query[q].stdout # <<>>
        /\ query[p].elapsed < TimeoutMs /\ query[q].elapsed < TimeoutMs

\* C27: a query is saved only when its caller got the result: a query the
\* timer (or anything else) rejected is never saved, whatever its process
\* prints before it closes.
C27_SavedOnlyWhenResolved ==
    \A q \in Q : query[q].saved > 0 => query[q].promise = "fulfilled"

\* C28: a call made while the probe was running is rejected with the
\* not-initialized error and starts no process, also once the probe has
\* succeeded; a dispatched call was made after the probe had succeeded.
C28_CallDuringProbeRejected ==
    \A q \in Q :
        /\ query[q].probeAtCall = "running" =>
              /\ query[q].state = "thrown"
              /\ query[q].promise = "rejected"
              /\ query[q].outcome = Reject("RAG service not initialized", "")
              /\ query[q].spawns = 0
              /\ query[q].proc = "none"
        /\ Dispatched(q) => query[q].probeAtCall = "ok"

C28_Witness ==
    \E p \in Q, q \in Q :
        /\ query[p].probeAtCall = "running"
        /\ query[p].state = "thrown"
        /\ probe = "ok"
        /\ Dispatched(q)

\* C29: the probe is spawned once; the service is initialized only when the
\* probe has closed with code 0 and "Python OK" in its output; and once
\* initialized it stays initialized.
C29_InitializationMonotone ==
    /\ [](testProcess.spawns = 1)
    /\ [](isInitialized =>
            testProcess.closed /\ testProcess.code = 0 /\ testProcess.printed)
    /\ [][isInitialized => isInitialized']_vars

C29_Witness ==
    /\ isInitialized
    /\ \E q \in Q : query[q].outcome = Reject("RAG query timeout", "")
    /\ \E q \in Q : query[q].closeOutcome.settle = "reject"

\* ------------------------------------------------------------------ C22
\* C22: for every question, quotes, backslashes and control characters
\* included, the script built by query() is intact and Python reads from its
\* question literal exactly the question that was given.
C22_QuestionRoundTrip ==
    \A q \in Q :
        query[q].state = "dispatched" =>
            /\ ScriptIntact(query[q].script)
            /\ ScriptQuestion(query[q].script).value = query[q].question

\* ------------------------------------------------------------------ C25
\* The invocation of the backend: spawn('python', ['-c', pythonScript], ...).
Invocation(question, options) ==
    [command |-> "python", flag |-> "-c", script |-> PythonScript(question, options)]

\* C25: every field of the options reaches the backend: two calls with the
\* same question and options that differ in any field are invoked differently.
C25_OptionsReachBackend ==
    \A q \in Q :
        query[q].state = "dispatched" =>
            \A o \in ScriptOptions :
                o # query[q].options =>
                    Invocation(query[q].question, o)
                        # Invocation(query[q].question, query[q].options)

\* ------------------------------------------------------------------ C23
\* The i-th character of a string.
RECURSIVE CharAt(_, _)
CharAt(str, i) ==
    IF i <= Head(str).n THEN Head(str).ch ELSE CharAt(Tail(str), i - Head(str).n)

SameString(a, b) ==
    /\ StrLen(a) = StrLen(b)
    /\ \A i \in 1..StrLen(a) : CharAt(a, i) = CharAt(b, i)

\* returned is the first ExcerptLen characters of content and then "...".
CutAndMarked(content, returned) ==
    /\ StrLen(returned) = ExcerptLen + 3
    /\ \A i \in 1..ExcerptLen : CharAt(returned, i) = CharAt(content, i)
    /\ \A i \in (ExcerptLen + 1)..(ExcerptLen + 3) : CharAt(returned, i) = "."

\* The call was resumed with the result its process printed.
ResolvedWithResult(c) ==
    /\ c.promise = "fulfilled"
    /\ c.beh.outcome = "result"

\* C23: every excerpt returned to the caller is the backend's content when
\* that has at most 500 characters, and otherwise its first 500 characters
\* followed by the three characters of the marker.
C23_ExcerptTruncated ==
    \A q \in Q :
        ResolvedWithResult(query[q]) =>
            /\ Len(query[q].outcome.result.sources) = Len(query[q].beh.chunks)
            /\ \A i \in 1..Len(query[q].beh.chunks) :
                  LET content == query[q].beh.chunks[i].content
                      returned == query[q].outcome.result.sources[i].content
                  IN  IF StrLen(content) <= ExcerptLen
                      THEN SameString(returned, content)
                      ELSE CutAndMarked(content, returned)

C23_Witness ==
    \E q \in Q :
        /\ ResolvedWithResult(query[q])
        /\ StrLen(query[q].beh.chunks[1].content) = ExcerptLen + 100
        /\ StrLen(query[q].outcome.result.sources[1].content) = ExcerptLen + 3

\* ------------------------------------------------------------------ C24
\* The body fails validation: the question is shorter than 1 or longer than
\* 1000 characters, maxSources is outside [1, 10], or temperature is outside
\* [0, 1].
FailsValidation(body) ==
    \/ StrLen(body.question) < 1
    \/ StrLen(body.question) > 1000
    \/ \E m \in body.maxSources : m < 1 \/ m > 10
    \/ \E t \in body.temperature : t < 0 \/ t > MaxTemperature

\* Request r has arrived in this step.
Arrives(r) == request[r].state = "none" /\ request'[r].state # "none"

\* C24: a request whose body fails validation is answered with status 400
\* and no query() call is ever made for it; the step that handles it starts
\* no process and leaves the calls and the statistics as they were.
C24_InvalidRequestRejected ==
    /\ [](\A r \in Requests :
            (request[r].state # "none" /\ FailsValidation(request[r].body)) =>
                /\ request[r].state = "answered"
                /\ request[r].status = 400
                /\ request[r].call = 0)
    /\ [][\A r \in Requests :
            (Arrives(r) /\ FailsValidation(request'[r].body)) =>
                /\ query' = query
                /\ queryCount' = queryCount
                /\ totalQueryTime' = totalQueryTime]_vars

\* A request is rejected after an earlier one has been counted.
C24_Witness ==
    \E r \in Requests :
        /\ request[r].status = 400
        /\ FailsValidation(request[r].body)
        /\ queryCount > 0

\* ------------------------------------------------------------------ C30
CountOf(type) ==
    Cardinality({i \in 1..Len(chat.messages) : chat.messages[i].type = type})

IsPrefix(a, b) == Len(a) <= Len(b) /\ SubSeq(b, 1, Len(a)) = a

\* handleSubmit has run in this step.
Submitted == chat'.submits = chat.submits + 1

\* C30: at most one request is in flight; a submit with a blank input or
\* while a request is pending changes nothing; messages are only appended,
\* one user message per accepted submit and one assistant message per
\* successful response, so there are never more assistant than user messages.
C30_ChatPageOrder ==
    /\ [](Len(chat.inFlight) <= 1)
    /\ [](CountOf("user") = chat.accepted)
    /\ [](CountOf("assistant") = chat.succeeded)
    /\ [](CountOf("assistant") <= CountOf("user"))
    /\ [][IsPrefix(chat.messages, chat'.messages)]_vars
    /\ [][(Submitted /\ (Trim(chat.input) = <<>> \/ Len(chat.inFlight) > 0)) =>
            /\ chat'.messages = chat.messages
            /\ chat'.inFlight = chat.inFlight
            /\ chat'.input = chat.input
            /\ chat'.status = chat.status]_vars
    /\ [][(Submitted /\ Trim(chat.input) # <<>> /\ Len(chat.inFlight) = 0) =>
            /\ chat'.messages = Append(chat.messages, ChatMessage("user", chat.input))
            /\ chat'.inFlight = <<chat.input>>]_vars
    /\ [][chat'.succeeded = chat.succeeded + 1 =>
            /\ Len(chat'.messages) = Len(chat.messages) + 1
            /\ chat'.messages[Len(chat'.messages)].type = "assistant"]_vars

\* A submit was refused while a request was pending, and answers came back.
C30_Witness ==
    /\ chat.submits > chat.accepted
    /\ chat.accepted > 1
    /\ chat.succeeded > 0
    /\ Len(chat.inFlight) = 1

================================================================================
